---- MODULE Spec2Model ----
(***************************************************************************)
(* Cart / catalog / order services of the e-commerce backend, as a state   *)
(* machine over the stored collections (products, carts, orders, users).   *)
(* Every service call is one action: the handler runs inside one database  *)
(* transaction, so a call that throws leaves the collections untouched.    *)
(* The last sections follow single calls step by step (calls), where       *)
(* requests overlap or the store fails, and the uploaded files (files).    *)
(***************************************************************************)
EXTENDS Integers, Sequences, FiniteSets, TLC

VARIABLES products, carts, orders, last, users, calls, files

vars == <<products, carts, orders, last, users, calls, files>>

----------------------------------------------------------------------------
(* Bounds of the exploration *)

\* largest quantity a request carries and largest stock level a product gets
MaxQty == 2
\* number of cart documents the store holds (live and soft-cleared together)
MaxCarts == 2
\* number of order documents the store holds
MaxOrders == 1

\* sample unit prices
Prices == {1, 2}

----------------------------------------------------------------------------
(* Identifiers *)

UserIds == {"u1", "u2"}
\* accounts that own a seller profile
SellerIds == {"u1"}
ProductIds == {"p1", "p2"}
\* a string that mongoose.isValidObjectId rejects
BadId == "bad"
\* an optional request field: <<>> when absent (undefined), <<v>> when present
Undefined == <<>>
Optional(S) == {Undefined} \cup {<<v>> : v \in S}
NoId == "none"

isValidObjectId(id) == id # BadId

\* an ObjectId whose 24 digits are all decimal: the only kind of id that the
\* global isNaN() does not reject
NumericIds == {"7"}
isNaN(id) == id \notin NumericIds

Quantities == 0..MaxQty

----------------------------------------------------------------------------
(* Errors thrown by the services: HTTP status class and message *)

BadRequestError(m) == [status |-> 400, message |-> m]
ForbiddenError(m) == [status |-> 403, message |-> m]
NotFoundError(m) == [status |-> 404, message |-> m]

MsgInsufficientStock == "Insufficient stock for product"

----------------------------------------------------------------------------
(* Stored documents *)

NoProduct ==
  [exists |-> FALSE, price |-> 0, stock |-> 0, isActive |-> FALSE,
   isDeleted |-> FALSE, seller |-> NoId]

\* the cart a handler builds when the user has no live cart
NewCart(userId) ==
  [userId |-> userId, items |-> <<>>, totalAmount |-> 0, isDeleted |-> FALSE]

\* Array.prototype.reduce((sum, item) => sum + item.totalPrice, 0)
RECURSIVE SumTotalPrice(_)
SumTotalPrice(items) ==
  IF items = <<>> THEN 0
  ELSE Head(items).totalPrice + SumTotalPrice(Tail(items))

\* Array.prototype.findIndex on productId, 1-based; 0 stands for -1
RECURSIVE FindIndexFrom(_, _, _)
FindIndexFrom(items, productId, i) ==
  IF i > Len(items) THEN 0
  ELSE IF items[i].productId = productId THEN i
  ELSE FindIndexFrom(items, productId, i + 1)

findIndex(items, productId) == FindIndexFrom(items, productId, 1)

\* Array.prototype.splice(i, 1)
splice(items, i) ==
  [k \in 1..(Len(items) - 1) |-> IF k < i THEN items[k] ELSE items[k + 1]]

\* Cart.findOne({ userId, isDeleted: false }): index of the document, 0 if none
RECURSIVE FindCartFrom(_, _, _)
FindCartFrom(cs, userId, i) ==
  IF i > Len(cs) THEN 0
  ELSE IF cs[i].userId = userId /\ ~cs[i].isDeleted THEN i
  ELSE FindCartFrom(cs, userId, i + 1)

FindLiveCart(cs, userId) == FindCartFrom(cs, userId, 1)

\* a lookup that forgets the isActive filter
FindActiveProduct_IgnoreActive(ps, productId) ==
  /\ productId \in ProductIds
  /\ ps[productId].exists
  /\ ~ps[productId].isDeleted

\* Product.findOne({ _id, isActive: true, isDeleted: false }) finds a document
FindActiveProduct(ps, productId) ==
  /\ productId \in ProductIds
  /\ ps[productId].exists
  /\ ps[productId].isActive
  /\ ~ps[productId].isDeleted

\* Product.findOne({ _id, isDeleted: false }) finds a document
FindProduct(ps, productId) ==
  /\ productId \in ProductIds
  /\ ps[productId].exists
  /\ ~ps[productId].isDeleted

----------------------------------------------------------------------------
(* Cart model *)

\* a hook that refreshes the price of a line but not its total
RefreshItem_StaleTotal(ps, item) ==
  [item EXCEPT !.price = ps[item.productId].price]

\* the per-item loop of the pre-save hook: price refresh and line total
RefreshItem(ps, item) ==
  [item EXCEPT !.price = ps[item.productId].price,
               !.totalPrice = ps[item.productId].price * item.quantity]

\* a hook that validates availability but not stock
PreSave_NoStockCheck(ps, cart) ==
  LET ids == {cart.items[i].productId : i \in 1..Len(cart.items)}
      found == {p \in ids : FindActiveProduct(ps, p)}
  IN IF Cardinality(found) # Len(cart.items)
       THEN [ok |-> FALSE, cart |-> cart,
             message |-> "One or more products are unavailable"]
     ELSE LET items == [i \in 1..Len(cart.items) |-> RefreshItem(ps, cart.items[i])]
          IN [ok |-> TRUE,
              cart |-> [cart EXCEPT !.items = items,
                                    !.totalAmount = SumTotalPrice(items)],
              message |-> ""]

\* CartSchema.pre('save'): ok = FALSE when next(error) is called
\* (the `validate` object beside the item schema declares no validator: an
\* array path takes its element type from the first entry only)
PreSave(ps, cart) ==
  LET ids == {cart.items[i].productId : i \in 1..Len(cart.items)}
      found == {p \in ids : FindActiveProduct(ps, p)}
  IN IF Cardinality(found) # Len(cart.items)
       THEN [ok |-> FALSE, cart |-> cart,
             message |-> "One or more products are unavailable"]
     ELSE IF \E i \in 1..Len(cart.items) :
               ps[cart.items[i].productId].stock < cart.items[i].quantity
       THEN [ok |-> FALSE, cart |-> cart, message |-> MsgInsufficientStock]
     ELSE LET items == [i \in 1..Len(cart.items) |-> RefreshItem(ps, cart.items[i])]
          IN [ok |-> TRUE,
              cart |-> [cart EXCEPT !.items = items,
                                    !.totalAmount = SumTotalPrice(items)],
              message |-> ""]

\* a merge that overwrites the quantity instead of adding to it
MergeItem_Replace(item, price, quantity) ==
  [item EXCEPT !.quantity = quantity,
               !.price = price,
               !.totalPrice = price * quantity]

\* the branch of addItem taken when the product already has a line
MergeItem(item, price, quantity) ==
  [item EXCEPT !.quantity = item.quantity + quantity,
               !.price = price,
               !.totalPrice = price * (item.quantity + quantity)]

\* CartSchema.methods.addItem: ok = FALSE when it throws
addItem(ps, cart, productId, quantity) ==
  IF ~FindActiveProduct(ps, productId)
    THEN [ok |-> FALSE, cart |-> cart, message |-> "Product not found or unavailable"]
  ELSE IF ps[productId].stock < quantity
    THEN [ok |-> FALSE, cart |-> cart, message |-> MsgInsufficientStock]
  ELSE
    LET i == findIndex(cart.items, productId)
        items ==
          IF i > 0
            THEN [cart.items EXCEPT ![i] = MergeItem(@, ps[productId].price, quantity)]
            ELSE Append(cart.items,
                        [productId |-> productId,
                         price |-> ps[productId].price,
                         quantity |-> quantity,
                         totalPrice |-> ps[productId].price * quantity])
    IN PreSave(ps, [cart EXCEPT !.items = items,
                                !.totalAmount = SumTotalPrice(items)])

\* cart.save(): the document replaces its stored version, a new one is inserted
SaveCart(cs, idx, cart) ==
  IF idx = 0 THEN Append(cs, cart) ELSE [cs EXCEPT ![idx] = cart]

----------------------------------------------------------------------------
(* The outcome of the last service call: the operation, the user it named,  *)
(* the status and message of what it returned or threw, whether it ran a    *)
(* transaction, and the cart it returned.  A call that returns also leaves  *)
(* the product and the quantity it named.                                   *)

Result(op, userId, status, message, tx, items, total) ==
  [op |-> op, userId |-> userId, productId |-> NoId, quantity |-> 0,
   status |-> status, message |-> message, tx |-> tx,
   items |-> items, totalAmount |-> total]

\* a call that throws err; tx tells whether a transaction had been started
Thrown(op, userId, err, tx) ==
  Result(op, userId, err.status, err.message, tx, <<>>, 0)

\* the requests that can be in flight at the same time
CallSeq == <<"c1", "c2", "c3">>
CallIds == {CallSeq[i] : i \in DOMAIN CallSeq}

\* request d arrives before request c
Earlier(d, c) ==
  \E i \in DOMAIN CallSeq, j \in DOMAIN CallSeq :
    CallSeq[i] = d /\ CallSeq[j] = c /\ i < j

\* a request slot before its request has arrived
IdleCall ==
  [pc |-> "idle", op |-> "none", userId |-> NoId, productId |-> NoId,
   quantity |-> 0, cartIdx |-> 0, cart |-> NewCart(NoId), txnStock |-> 0,
   usedStock |-> 0, tx |-> "none", status |-> 0, fault |-> FALSE,
   abortAfterCommit |-> FALSE, razorpayOrderId |-> NoId, verified |-> FALSE]

\* the public ids of the files a request uploads
FileIds == {"f1", "f2"}

Init ==
  /\ products = [p \in ProductIds |-> NoProduct]
  /\ calls = [c \in CallIds |-> IdleCall]
  /\ files = [f \in FileIds |-> "absent"]
  /\ carts = <<>>
  /\ orders = <<>>
  /\ users = UserIds \cup NumericIds
  /\ last = Result("init", NoId, 200, "", "none", <<>>, 0)

----------------------------------------------------------------------------
(* Cart service.  Each operator computes what the call does to the cart     *)
(* collection and what it returns or throws.                                *)

Outcome(cs, res) == [carts |-> cs, last |-> res]

\* a handler without the ownership check
Unauthorized_Never(userId, authUserId) == FALSE

\* the ownership check every cart handler makes before it opens a session
Unauthorized(userId, authUserId) == userId # authUserId

\* the stored cart as the handlers return it after commit (Cart.findById)
Returned(op, userId, productId, quantity, cart) ==
  [Result(op, userId, 200, "", "committed", cart.items, cart.totalAmount)
     EXCEPT !.productId = productId, !.quantity = quantity]

\* CartService.addItemToCart
addItemToCart(ps, cs, userId, productId, quantity, authUserId) ==
  LET op == "addItem"
      fail(err, tx) ==
        Outcome(cs, Thrown(op, userId, err, tx))
  IN
  IF ~isValidObjectId(userId) \/ ~isValidObjectId(productId)
    THEN fail(BadRequestError("Invalid user or product ID"), "none")
  ELSE IF quantity <= 0
    THEN fail(BadRequestError("Quantity must be a positive integer"), "none")
  ELSE IF Unauthorized(userId, authUserId)
    THEN fail(ForbiddenError("Unauthorized to modify this cart"), "none")
  ELSE IF ~FindActiveProduct(ps, productId)
    THEN fail(NotFoundError("Product not found or unavailable"), "aborted")
  ELSE IF ps[productId].stock < quantity
    THEN fail(BadRequestError(MsgInsufficientStock), "aborted")
  ELSE
    LET idx == FindLiveCart(cs, userId)
        cart == IF idx = 0 THEN NewCart(userId) ELSE cs[idx]
        saved == addItem(ps, cart, productId, quantity)
    IN IF saved.ok
         THEN Outcome(SaveCart(cs, idx, saved.cart),
                      Returned(op, userId, productId, quantity, saved.cart))
         ELSE fail(BadRequestError("Failed to add item to cart"), "aborted")

\* CartService.removeItemFromCart
removeItemFromCart(ps, cs, userId, productId, authUserId) ==
  LET op == "removeItem"
      fail(err, tx) ==
        Outcome(cs, Thrown(op, userId, err, tx))
      idx == FindLiveCart(cs, userId)
  IN
  IF ~isValidObjectId(userId) \/ ~isValidObjectId(productId)
    THEN fail(BadRequestError("Invalid user or product ID"), "none")
  ELSE IF Unauthorized(userId, authUserId)
    THEN fail(ForbiddenError("Unauthorized to modify this cart"), "none")
  ELSE IF idx = 0
    THEN fail(NotFoundError("Cart not found"), "aborted")
  ELSE IF findIndex(cs[idx].items, productId) = 0
    THEN fail(NotFoundError("Item not found in cart"), "aborted")
  ELSE
    LET items == splice(cs[idx].items, findIndex(cs[idx].items, productId))
        saved == PreSave(ps, [cs[idx] EXCEPT !.items = items,
                                             !.totalAmount = SumTotalPrice(items)])
    IN IF saved.ok
         THEN Outcome(SaveCart(cs, idx, saved.cart),
                      Returned(op, userId, productId, 0, saved.cart))
         ELSE fail(BadRequestError("Failed to remove item from cart"), "aborted")

\* CartService.updateCartItemQuantity
updateCartItemQuantity(ps, cs, userId, productId, quantity, authUserId) ==
  LET op == "updateQuantity"
      fail(err, tx) ==
        Outcome(cs, Thrown(op, userId, err, tx))
      idx == FindLiveCart(cs, userId)
  IN
  IF ~isValidObjectId(userId) \/ ~isValidObjectId(productId)
    THEN fail(BadRequestError("Invalid user or product ID"), "none")
  ELSE IF quantity <= 0
    THEN fail(BadRequestError("Quantity must be a positive integer"), "none")
  ELSE IF Unauthorized(userId, authUserId)
    THEN fail(ForbiddenError("Unauthorized to modify this cart"), "none")
  ELSE IF ~FindActiveProduct(ps, productId)
    THEN fail(NotFoundError("Product not found or unavailable"), "aborted")
  ELSE IF ps[productId].stock < quantity
    THEN fail(BadRequestError(MsgInsufficientStock), "aborted")
  ELSE IF idx = 0
    THEN fail(NotFoundError("Cart not found"), "aborted")
  ELSE IF findIndex(cs[idx].items, productId) = 0
    THEN fail(NotFoundError("Item not found in cart"), "aborted")
  ELSE
    LET i == findIndex(cs[idx].items, productId)
        items == [cs[idx].items EXCEPT
                    ![i] = [@ EXCEPT !.quantity = quantity,
                                     !.price = ps[productId].price,
                                     !.totalPrice = ps[productId].price * quantity]]
        saved == PreSave(ps, [cs[idx] EXCEPT !.items = items,
                                             !.totalAmount = SumTotalPrice(items)])
    IN IF saved.ok
         THEN Outcome(SaveCart(cs, idx, saved.cart),
                      Returned(op, userId, productId, quantity, saved.cart))
         ELSE fail(BadRequestError("Failed to update item quantity"), "aborted")

\* a clear that marks the cart deleted but keeps its lines
ClearedCart_KeepItems(cart) ==
  [cart EXCEPT !.isDeleted = TRUE]

\* the document clearCart saves
ClearedCart(cart) ==
  [cart EXCEPT !.isDeleted = TRUE, !.items = <<>>, !.totalAmount = 0]

\* CartService.clearCart
clearCart(ps, cs, userId, authUserId) ==
  LET op == "clear"
      fail(err, tx) == Outcome(cs, Thrown(op, userId, err, tx))
      idx == FindLiveCart(cs, userId)
  IN
  IF ~isValidObjectId(userId)
    THEN fail(BadRequestError("Invalid user ID"), "none")
  ELSE IF Unauthorized(userId, authUserId)
    THEN fail(ForbiddenError("Unauthorized to clear this cart"), "none")
  ELSE IF idx = 0
    THEN fail(NotFoundError("Cart not found"), "aborted")
  ELSE
    LET saved == PreSave(ps, ClearedCart(cs[idx]))
    IN IF saved.ok
         THEN Outcome(SaveCart(cs, idx, saved.cart),
                      Result(op, userId,
                             200, "Cart cleared successfully", "committed", <<>>, 0))
         ELSE fail(BadRequestError("Failed to clear cart"), "aborted")

\* a filter that forgets the stock comparison
IsVisible_NoStock(ps, item) ==
  /\ ps[item.productId].exists
  /\ ps[item.productId].isActive
  /\ ~ps[item.productId].isDeleted

\* the filter of getUserCart on a populated line
IsVisible(ps, item) ==
  /\ ps[item.productId].exists
  /\ ps[item.productId].isActive
  /\ ~ps[item.productId].isDeleted
  /\ ps[item.productId].stock >= item.quantity

\* CartService.getUserCart
getUserCart(ps, cs, userId, authUserId) ==
  LET op == "view"
      fail(err) == Outcome(cs, Thrown(op, userId, err, "none"))
      idx == FindLiveCart(cs, userId)
  IN
  IF ~isValidObjectId(userId)
    THEN fail(BadRequestError("Invalid user ID"))
  ELSE IF Unauthorized(userId, authUserId)
    THEN fail(ForbiddenError("Unauthorized to view this cart"))
  ELSE IF idx = 0
    THEN Outcome(cs, Result(op, userId, 200, "", "none", <<>>, 0))
  ELSE
    LET items == SelectSeq(cs[idx].items, LAMBDA item : IsVisible(ps, item))
    IN Outcome(cs, Result(op, userId,
                          200, "", "none", items, SumTotalPrice(items)))

----------------------------------------------------------------------------
(* Cart actions *)

\* the account whose cart the calls name; the other account acts on it as a
\* foreign principal
CartOwnerIds == {"u1"}
\* <<userId, authUserId>> of a cart call
CartCallers ==
  {<<u, a>> : u \in CartOwnerIds, a \in UserIds} \cup {<<BadId, a>> : a \in CartOwnerIds}

\* a call may insert a cart document only while the store has room for one
RoomForCart(userId) == FindLiveCart(carts, userId) # 0 \/ Len(carts) < MaxCarts

AddItemToCart(userId, productId, quantity, authUserId) ==
  /\ RoomForCart(userId)
  /\ LET out == addItemToCart(products, carts, userId, productId, quantity, authUserId)
     IN carts' = out.carts /\ last' = out.last
  /\ UNCHANGED <<products, orders, users, calls, files>>

RemoveItemFromCart(userId, productId, authUserId) ==
  /\ LET out == removeItemFromCart(products, carts, userId, productId, authUserId)
     IN carts' = out.carts /\ last' = out.last
  /\ UNCHANGED <<products, orders, users, calls, files>>

UpdateCartItemQuantity(userId, productId, quantity, authUserId) ==
  /\ LET out == updateCartItemQuantity(products, carts, userId, productId, quantity, authUserId)
     IN carts' = out.carts /\ last' = out.last
  /\ UNCHANGED <<products, orders, users, calls, files>>

ClearCart(userId, authUserId) ==
  /\ LET out == clearCart(products, carts, userId, authUserId)
     IN carts' = out.carts /\ last' = out.last
  /\ UNCHANGED <<products, orders, users, calls, files>>

GetUserCart(userId, authUserId) ==
  /\ LET out == getUserCart(products, carts, userId, authUserId)
     IN carts' = out.carts /\ last' = out.last
  /\ UNCHANGED <<products, orders, users, calls, files>>

----------------------------------------------------------------------------
(* Product service *)

CatalogOutcome(ps, res) == [products |-> ps, last |-> res]

\* the id the store gives the next product document
NextProductId(ps) ==
  IF ~ps["p1"].exists THEN "p1" ELSE IF ~ps["p2"].exists THEN "p2" ELSE NoId

\* ProductService.addProduct
addProduct(ps, userId, sellerId, price, stock, isActive) ==
  LET op == "addProduct"
      id == NextProductId(ps)
      fail(err, tx) == CatalogOutcome(ps, Thrown(op, userId, err, tx))
  IN
  IF price = 0 \/ stock = 0
    THEN fail(BadRequestError("Missing required fields"), "none")
  ELSE IF price < 0 \/ stock < 0
    THEN fail(BadRequestError("Price, discountPrice, and stock must be non-negative"), "none")
  ELSE IF sellerId # userId
    THEN fail(ForbiddenError("Unauthorized to add product for this seller"), "none")
  ELSE
    CatalogOutcome(
      [ps EXCEPT ![id] = [exists |-> TRUE, price |-> price, stock |-> stock,
                          isActive |-> IF isActive # Undefined THEN isActive[1] ELSE TRUE,
                          isDeleted |-> FALSE, seller |-> sellerId]],
      Result(op, userId, 200, "", "committed", <<>>, 0))

\* ProductService.updateProduct
updateProduct(ps, id, price, stock, isActive, userId) ==
  LET op == "updateProduct"
      fail(err, tx) == CatalogOutcome(ps, Thrown(op, userId, err, tx))
  IN
  IF ~FindProduct(ps, id)
    THEN fail(NotFoundError("Product not found"), "aborted")
  ELSE IF ps[id].seller # userId
    THEN fail(ForbiddenError("Unauthorized to update this product"), "aborted")
  ELSE
    CatalogOutcome(
      [ps EXCEPT ![id] = [@ EXCEPT
          !.price = IF price # Undefined THEN price[1] ELSE @,
          !.stock = IF stock # Undefined THEN stock[1] ELSE @,
          !.isActive = IF isActive # Undefined THEN isActive[1] ELSE @]],
      Result(op, userId, 200, "", "committed", <<>>, 0))

\* ProductService.deleteProduct
deleteProduct(ps, id, userId) ==
  LET op == "deleteProduct"
      fail(err, tx) == CatalogOutcome(ps, Thrown(op, userId, err, tx))
  IN
  IF ~FindProduct(ps, id)
    THEN fail(NotFoundError("Product not found"), "aborted")
  ELSE IF ps[id].seller # userId
    THEN fail(ForbiddenError("Unauthorized to delete this product"), "aborted")
  ELSE
    CatalogOutcome(
      [ps EXCEPT ![id] = [@ EXCEPT !.isDeleted = TRUE, !.isActive = FALSE]],
      Result(op, userId, 200, "Product deleted successfully",
             "committed", <<>>, 0))

Stocks == 1..MaxQty

AddProduct(userId, sellerId, price, stock, isActive) ==
  /\ NextProductId(products) # NoId
  /\ LET out == addProduct(products, userId, sellerId, price, stock, isActive)
     IN products' = out.products /\ last' = out.last
  /\ UNCHANGED <<carts, orders, users, calls, files>>

UpdateProduct(id, price, stock, isActive, userId) ==
  /\ LET out == updateProduct(products, id, price, stock, isActive, userId)
     IN products' = out.products /\ last' = out.last
  /\ UNCHANGED <<carts, orders, users, calls, files>>

DeleteProduct(id, userId) ==
  /\ LET out == deleteProduct(products, id, userId)
     IN products' = out.products /\ last' = out.last
  /\ UNCHANGED <<carts, orders, users, calls, files>>

----------------------------------------------------------------------------
(* The cart and catalog services together *)

\* the update payloads: one field of the product per call
PriceRequests ==
  {[price |-> <<v>>, stock |-> Undefined, isActive |-> Undefined] : v \in Prices}

StockRequests ==
  {[price |-> Undefined, stock |-> <<v>>, isActive |-> Undefined] : v \in Stocks}

ActiveRequests ==
  {[price |-> Undefined, stock |-> Undefined, isActive |-> <<v>>] : v \in BOOLEAN}

\* the catalogue as the cart sees it when prices do not move: every product
\* is listed at one price, and sellers change stock and availability
ListPrices == {1}

\* a call by an account that is not the seller is refused whatever else it
\* carries: such calls carry one payload
CatalogNext ==
  \/ \E sellerId \in SellerIds, price \in ListPrices,
        stock \in Stocks, isActive \in {Undefined, <<FALSE>>} :
       AddProduct(sellerId, sellerId, price, stock, isActive)
  \/ \E userId \in UserIds \ SellerIds, sellerId \in SellerIds,
        price \in ListPrices :
       AddProduct(userId, sellerId, price, MaxQty, Undefined)
  \/ \E id \in ProductIds, userId \in SellerIds,
        upd \in StockRequests \cup ActiveRequests :
       UpdateProduct(id, upd.price, upd.stock, upd.isActive, userId)
  \/ \E id \in ProductIds, userId \in UserIds \ SellerIds :
       UpdateProduct(id, Undefined, Undefined, <<FALSE>>, userId)
  \/ \E id \in ProductIds, userId \in UserIds : DeleteProduct(id, userId)

\* the products and quantities a cart call names: every one when the owner
\* calls; a call the id or ownership check turns away reads nothing else, so
\* it names fewer
ProductsNamed(c) == IF isValidObjectId(c[1]) THEN ProductIds ELSE {"p1"}
QuantitiesNamed(c) == IF c[1] = c[2] THEN Quantities ELSE 0..1

CartNext ==
  \/ \E c \in CartCallers :
       \E productId \in ProductsNamed(c), quantity \in QuantitiesNamed(c) :
         AddItemToCart(c[1], productId, quantity, c[2])
  \/ \E c \in CartCallers :
       \E productId \in ProductsNamed(c) :
         RemoveItemFromCart(c[1], productId, c[2])
  \/ \E c \in CartCallers :
       \E productId \in ProductsNamed(c), quantity \in QuantitiesNamed(c) :
         UpdateCartItemQuantity(c[1], productId, quantity, c[2])
  \/ \E c \in CartCallers : ClearCart(c[1], c[2])
  \/ \E c \in CartCallers : GetUserCart(c[1], c[2])

Next == CatalogNext \/ CartNext

Spec == Init /\ [][Next]_vars

\* the same services when sellers reprice: the owner of the cart shops while
\* the seller changes the price, the stock and the availability of products
OwnerCallers == {<<userId, userId>> : userId \in CartOwnerIds}

PricingNext ==
  \/ \E sellerId \in SellerIds, price \in Prices, stock \in Stocks :
       AddProduct(sellerId, sellerId, price, stock, Undefined)
  \/ \E id \in ProductIds, userId \in SellerIds,
        upd \in PriceRequests \cup StockRequests \cup ActiveRequests :
       UpdateProduct(id, upd.price, upd.stock, upd.isActive, userId)
  \/ \E c \in OwnerCallers, productId \in ProductIds, quantity \in 1..MaxQty :
       AddItemToCart(c[1], productId, quantity, c[2])
  \/ \E c \in OwnerCallers, productId \in ProductIds :
       RemoveItemFromCart(c[1], productId, c[2])
  \/ \E c \in OwnerCallers, productId \in ProductIds, quantity \in 1..MaxQty :
       UpdateCartItemQuantity(c[1], productId, quantity, c[2])
  \/ \E c \in OwnerCallers : ClearCart(c[1], c[2])
  \/ \E c \in OwnerCallers : GetUserCart(c[1], c[2])

SpecPricing == Init /\ [][PricingNext]_vars

----------------------------------------------------------------------------
(* Order creation: the order service and the payment controller *)

\* product.sellerId as createOrder reads it: productSchema declares the path
\* `seller`, so the document has no `sellerId` and the read gives undefined
sellerIdOf(product) == Undefined

OrderOutcome(os, res) == [orders |-> os, last |-> res]

\* the validation loop of createOrder over the requested lines, from line i on:
\* the error of the first line that fails, or the captured lines
RECURSIVE ValidateLines(_, _, _, _)
ValidateLines(ps, lines, i, captured) ==
  IF i > Len(lines) THEN [ok |-> TRUE, products |-> captured, err |-> BadRequestError("")]
  ELSE
    LET item == lines[i]
        reject(err) == [ok |-> FALSE, products |-> <<>>, err |-> err]
    IN
    IF ~isValidObjectId(item.productId)
      THEN reject(BadRequestError("Invalid product ID"))
    ELSE IF item.quantity < 1
      THEN reject(BadRequestError("Invalid quantity for product"))
    ELSE IF ~ps[item.productId].exists
      THEN reject(NotFoundError("Product not found"))
    ELSE IF sellerIdOf(ps[item.productId]) = Undefined
      THEN reject(BadRequestError("Product has no seller"))
    ELSE ValidateLines(ps, lines, i + 1,
           Append(captured,
                  [productId |-> item.productId, quantity |-> item.quantity,
                   price |-> ps[item.productId].price,
                   sellerId |-> sellerIdOf(ps[item.productId])[1]]))

\* Array.prototype.reduce((sum, item) => sum + item.price * item.quantity, 0)
RECURSIVE SumLines(_)
SumLines(lines) ==
  IF lines = <<>> THEN 0
  ELSE Head(lines).price * Head(lines).quantity + SumLines(Tail(lines))

\* an untyped Error as the controllers answer it: error.status || 500
InternalError(m) == [status |-> 500, message |-> m]

\* the ids the store gives the order documents and the ids the payment
\* gateway gives its orders, in the order of creation
OrderIdAt == <<"o1", "o2", "o3">>
RazorpayIdAt == <<"rzp1", "rzp2", "rzp3">>
OrderIds == {OrderIdAt[i] : i \in 1..MaxOrders}
RazorpayIds == {RazorpayIdAt[i] : i \in 1..MaxOrders}

\* the place of a document that was physically removed from the collection
NoOrder ==
  [exists |-> FALSE, userId |-> NoId, products |-> <<>>, totalAmount |-> 0,
   paymentStatus |-> "pending", status |-> "pending",
   razorpayOrderId |-> NoId, isDeleted |-> FALSE]

\* new Order({...}) after orderSchema.pre('save') has set totalAmount
NewOrder(userId, lines, razorpayOrderId) ==
  [exists |-> TRUE, userId |-> userId, products |-> lines,
   totalAmount |-> SumLines(lines),
   paymentStatus |-> "pending", status |-> "pending",
   razorpayOrderId |-> razorpayOrderId, isDeleted |-> FALSE]

\* an address of a request: not sent, sent with a sub-field but without
\* street, city or country, or sent with the three of them
Addresses == {"omitted", "partial", "complete"}

\* Object.keys(this.shippingAddress).length > 0 in the pre-save hook.  The
\* hook reads a nested path of a document; emptyHasKeys tells whether the
\* object the library hands out for a nested path nothing was assigned to
\* has enumerable keys (the declared sub-paths) or none
HasKeys(address, emptyHasKeys) == address # "omitted" \/ emptyHasKeys

\* the address validation of orderSchema.pre('save'): TRUE when next() is
\* called without an error
AddressesPass(shippingAddress, billingAddress, emptyHasKeys) ==
  /\ HasKeys(shippingAddress, emptyHasKeys) => shippingAddress = "complete"
  /\ HasKeys(billingAddress, emptyHasKeys) => billingAddress = "complete"

\* createOrder of the order service.  emailOk tells whether sendEmail
\* resolves; the user is looked up in the users collection
createOrder(ps, os, us, userId, lines, shippingAddress, billingAddress, emailOk, emptyHasKeys) ==
  LET op == "createOrder"
      fail(err, tx) == OrderOutcome(os, Thrown(op, userId, err, tx))
      checked == ValidateLines(ps, lines, 1, <<>>)
  IN
  IF ~isValidObjectId(userId)
    THEN fail(BadRequestError("Invalid user ID"), "none")
  ELSE IF lines = <<>>
    THEN fail(BadRequestError("Products array is required and cannot be empty"), "none")
  ELSE IF ~checked.ok
    THEN fail(checked.err, "aborted")
  ELSE IF ~AddressesPass(shippingAddress, billingAddress, emptyHasKeys)
    THEN fail(InternalError("Error creating order"), "aborted")
  ELSE IF userId \in us /\ ~emailOk
    THEN fail(InternalError("Error creating order"), "aborted")
  ELSE OrderOutcome(Append(os, NewOrder(userId, checked.products, NoId)),
                    Result(op, userId, 201, "Order created successfully",
                           "committed", <<>>, SumLines(checked.products)))

\* the order schema's validators on a line the client sent
ValidLine(line) ==
  /\ line.productId # NoId
  /\ line.quantity >= 1
  /\ line.price >= 0
  /\ line.sellerId # NoId

\* createOrder of the payment controller: the request body names the user, the
\* lines and their prices; gatewayOk tells whether the gateway created its
\* order.  The controller sets no address on the document it saves
paymentCreateOrder(os, userId, lines, gatewayOk, emptyHasKeys) ==
  LET op == "paymentCreateOrder"
      fail == OrderOutcome(os, Result(op, userId, 500, "Error creating order",
                                      "none", <<>>, 0))
  IN
  IF ~gatewayOk THEN fail
  ELSE IF ~isValidObjectId(userId) THEN fail
  ELSE IF \E i \in 1..Len(lines) : ~ValidLine(lines[i]) THEN fail
  ELSE IF ~AddressesPass("omitted", "omitted", emptyHasKeys) THEN fail
  ELSE OrderOutcome(Append(os, NewOrder(userId, lines, RazorpayIdAt[Len(os) + 1])),
                    Result(op, userId, 200, "", "none", <<>>, 0))

CreateOrder(userId, lines, shippingAddress, billingAddress, emailOk, emptyHasKeys) ==
  /\ Len(orders) < MaxOrders
  /\ LET out == createOrder(products, orders, users, userId, lines,
                            shippingAddress, billingAddress, emailOk, emptyHasKeys)
     IN orders' = out.orders /\ last' = out.last
  /\ UNCHANGED <<products, carts, users, calls, files>>

PaymentCreateOrder(userId, lines, gatewayOk, emptyHasKeys) ==
  /\ Len(orders) < MaxOrders
  /\ LET out == paymentCreateOrder(orders, userId, lines, gatewayOk, emptyHasKeys)
     IN orders' = out.orders /\ last' = out.last
  /\ UNCHANGED <<products, carts, users, calls, files>>

\* the line lists the order service is asked for
RequestedLines ==
  {<<>>} \cup {<<[productId |-> p, quantity |-> q]>> : p \in ProductIds, q \in 0..1}

\* the line lists a client posts to the payment controller
PostedLines ==
  {<<[productId |-> p, quantity |-> q, price |-> v, sellerId |-> "u1"]>> :
     p \in ProductIds, q \in 0..1, v \in Prices}

\* shopping followed by checkout
CheckoutNext ==
  \/ \E price \in Prices, stock \in Stocks :
       AddProduct("u1", "u1", price, stock, Undefined)
  \/ \E c \in CartCallers, productId \in ProductIds, quantity \in Quantities :
       AddItemToCart(c[1], productId, quantity, c[2])
  \/ \E c \in CartCallers : GetUserCart(c[1], c[2])
  \/ \E userId \in CartOwnerIds \cup {BadId}, lines \in RequestedLines :
       CreateOrder(userId, lines, "omitted", "omitted", TRUE, FALSE)
  \/ \E userId \in CartOwnerIds, lines \in PostedLines,
        gatewayOk \in BOOLEAN, emptyHasKeys \in BOOLEAN :
       PaymentCreateOrder(userId, lines, gatewayOk, emptyHasKeys)

SpecCheckout == Init /\ [][CheckoutNext]_vars

----------------------------------------------------------------------------
(* The life of an order: payment verification, status updates by the admin  *)
(* and by the seller, deletion, and the removal of a seller                  *)

\* Order.findById: the position of the stored document with this _id, or 0
FindOrderById(os, orderId) ==
  IF \E i \in 1..Len(os) : os[i].exists /\ OrderIdAt[i] = orderId
    THEN CHOOSE i \in 1..Len(os) : os[i].exists /\ OrderIdAt[i] = orderId
    ELSE 0

\* Order.findOne({ razorpayOrderId }): the position of the document, or 0
FindOrderByRazorpayId(os, razorpayOrderId) ==
  IF \E i \in 1..Len(os) : os[i].exists /\ os[i].razorpayOrderId = razorpayOrderId
    THEN CHOOSE i \in 1..Len(os) :
           os[i].exists /\ os[i].razorpayOrderId = razorpayOrderId
    ELSE 0

\* the enum of the status path of orderSchema
OrderStatuses == {"pending", "shipped", "delivered", "cancelled"}

\* paymentService.updatePaymentStatus: findOneAndUpdate sets paymentStatus on
\* the matching document and does nothing when there is none
updatePaymentStatus(os, razorpayOrderId, status) ==
  LET i == FindOrderByRazorpayId(os, razorpayOrderId)
  IN IF i = 0 THEN os ELSE [os EXCEPT ![i].paymentStatus = status]

\* verifyPayment of the payment controller; verified is the outcome of the
\* signature comparison of paymentService.verifyPayment
verifyPayment(os, razorpayOrderId, verified) ==
  LET op == "verifyPayment"
      i == FindOrderByRazorpayId(os, razorpayOrderId)
      paid == updatePaymentStatus(os, razorpayOrderId,
                                  IF verified THEN "completed" ELSE "failed")
      answer(status, message) == Result(op, NoId, status, message, "none", <<>>, 0)
  IN
  IF i = 0
    THEN OrderOutcome(paid, answer(404, "Order not found for updating status."))
  ELSE IF verified
    THEN OrderOutcome([paid EXCEPT ![i].status = "shipped"],
                      answer(200, "Payment successful"))
  ELSE OrderOutcome([paid EXCEPT ![i].status = "failed"],
                    answer(400, "Payment verification failed"))

\* the update document { status } of findByIdAndUpdate
SetStatus_Paid(order, status) ==
  [order EXCEPT !.status = status, !.paymentStatus = "completed"]

SetStatus(order, status) == [order EXCEPT !.status = status]

\* updateOrderStatus of the order service (the admin route)
updateOrderStatus(os, orderId, status) ==
  LET op == "updateOrderStatus"
      i == FindOrderById(os, orderId)
      fail(err) == OrderOutcome(os, Thrown(op, NoId, err, "none"))
  IN
  IF ~isValidObjectId(orderId)
    THEN fail(BadRequestError("Invalid order ID"))
  ELSE IF status \notin OrderStatuses
    THEN fail(BadRequestError("Invalid order status"))
  ELSE IF i = 0
    THEN fail(NotFoundError("Order not found"))
  ELSE OrderOutcome([os EXCEPT ![i] = SetStatus(@, status)],
                    Result(op, NoId, 200, "", "none", <<>>, 0))

\* order.save() of a stored document: the schema validates the status, and
\* the pre-save hook sums the stored lines again.  The hook's address check
\* depends on the addresses and on the library only; neither changes after
\* the document was first saved, so a stored document passes it again
SaveOrder_Reprice(ps, order) ==
  [order EXCEPT !.totalAmount =
     SumLines([k \in 1..Len(order.products) |->
                 [order.products[k] EXCEPT
                    !.price = ps[order.products[k].productId].price]])]

SaveOrder(ps, order) == [order EXCEPT !.totalAmount = SumLines(order.products)]

\* SellerService.updateOrderStatus behind the seller controller: every error
\* the service throws carries no status, and the controller answers 400
sellerUpdateOrderStatus(ps, os, orderId, status, sellerId) ==
  LET op == "sellerUpdateOrderStatus"
      i == FindOrderById(os, orderId)
      fail == OrderOutcome(os, Result(op, sellerId, 400,
                                      "Error updating order status", "none", <<>>, 0))
  IN
  IF ~isValidObjectId(orderId) THEN fail
  ELSE IF i = 0 THEN fail
  ELSE IF ~\E k \in 1..Len(os[i].products) : os[i].products[k].sellerId = sellerId
    THEN fail
  ELSE IF status \notin OrderStatuses THEN fail
  ELSE OrderOutcome([os EXCEPT ![i] = SaveOrder(ps, [@ EXCEPT !.status = status])],
                    Result(op, sellerId, 200, "", "none", <<>>, 0))

\* deleteOrder of the order service
deleteOrder(os, orderId) ==
  LET op == "deleteOrder"
      i == FindOrderById(os, orderId)
      fail(err) == OrderOutcome(os, Thrown(op, NoId, err, "none"))
  IN
  IF ~isValidObjectId(orderId)
    THEN fail(BadRequestError("Invalid order ID"))
  ELSE IF i = 0
    THEN fail(NotFoundError("Order not found"))
  ELSE OrderOutcome([os EXCEPT ![i].isDeleted = TRUE],
                    Result(op, NoId, 200, "", "none", <<>>, 0))

\* getOrderDetails of the order service: the stored lines and total
getOrderDetails(os, userId, orderId) ==
  LET op == "getOrderDetails"
      i == FindOrderById(os, orderId)
      fail(err) == OrderOutcome(os, Thrown(op, userId, err, "none"))
  IN
  IF ~isValidObjectId(userId) \/ ~isValidObjectId(orderId)
    THEN fail(BadRequestError("Invalid user or order ID"))
  ELSE IF i = 0 \/ (i # 0 /\ (os[i].userId # userId \/ os[i].isDeleted))
    THEN fail(NotFoundError("Order not found"))
  ELSE OrderOutcome(os, Result(op, userId, 200, "", "none",
                               os[i].products, os[i].totalAmount))

\* Order.deleteMany({ 'products.sellerId': sellerId })
DeleteOrdersOfSeller(os, sellerId) ==
  [i \in 1..Len(os) |->
     IF os[i].exists /\ \E k \in 1..Len(os[i].products) :
                           os[i].products[k].sellerId = sellerId
       THEN NoOrder ELSE os[i]]

\* Product.deleteMany({ sellerId }): productSchema declares no sellerId path.
\* When the library strips unknown paths from a filter (strictQuery) the
\* filter is empty and matches every product; when it does not, the filter
\* matches no stored product
DeleteProductsOfSeller(ps, strictQuery) ==
  IF strictQuery THEN [p \in ProductIds |-> NoProduct] ELSE ps

\* removeSeller of the admin controller and the admin service: the controller
\* answers 500 to whatever the service throws
removeSeller(ps, os, us, sellerId, strictQuery) ==
  LET op == "removeSeller"
      answer(status, message) == Result(op, sellerId, status, message, "none", <<>>, 0)
      kept(res) == [products |-> ps, orders |-> os, users |-> us, last |-> res]
  IN
  IF isNaN(sellerId) THEN kept(answer(400, "Invalid seller ID"))
  ELSE IF sellerId \notin us THEN kept(answer(500, "Internal server error"))
  ELSE [products |-> DeleteProductsOfSeller(ps, strictQuery),
        orders |-> DeleteOrdersOfSeller(os, sellerId),
        users |-> us \ {sellerId},
        last |-> answer(204, "")]

VerifyPayment(razorpayOrderId, verified) ==
  /\ LET out == verifyPayment(orders, razorpayOrderId, verified)
     IN orders' = out.orders /\ last' = out.last
  /\ UNCHANGED <<products, carts, users, calls, files>>

UpdateOrderStatus(orderId, status) ==
  /\ LET out == updateOrderStatus(orders, orderId, status)
     IN orders' = out.orders /\ last' = out.last
  /\ UNCHANGED <<products, carts, users, calls, files>>

SellerUpdateOrderStatus(orderId, status, sellerId) ==
  /\ LET out == sellerUpdateOrderStatus(products, orders, orderId, status, sellerId)
     IN orders' = out.orders /\ last' = out.last
  /\ UNCHANGED <<products, carts, users, calls, files>>

DeleteOrder(orderId) ==
  /\ LET out == deleteOrder(orders, orderId)
     IN orders' = out.orders /\ last' = out.last
  /\ UNCHANGED <<products, carts, users, calls, files>>

GetOrderDetails(userId, orderId) ==
  /\ LET out == getOrderDetails(orders, userId, orderId)
     IN orders' = out.orders /\ last' = out.last
  /\ UNCHANGED <<products, carts, users, calls, files>>

RemoveSeller(sellerId, strictQuery) ==
  /\ LET out == removeSeller(products, orders, users, sellerId, strictQuery)
     IN /\ products' = out.products
        /\ orders' = out.orders
        /\ users' = out.users
        /\ last' = out.last
  /\ UNCHANGED <<carts, calls, files>>

\* the sellers a posted line names: an account with a hexadecimal id and one
\* whose id is all decimal digits
LineSellers == {"u1"} \cup NumericIds

\* the unit price the client sends with a line it pays for; the catalogue
\* lists the product at this price or at the other one
ClientPrices == {2}

\* the lines a client posts when it pays for one unit of the first product
PaidLines ==
  {<<[productId |-> "p1", quantity |-> q, price |-> v, sellerId |-> s]>> :
     q \in 0..1, v \in ClientPrices, s \in LineSellers}

\* the statuses a status update asks for: two of the enum and one outside it
StatusRequests == {"shipped", "cancelled", "refunded"}

\* the catalogue of one product, orders through both creation paths, and
\* everything that happens to an order afterwards
OrdersNext ==
  \/ \E price \in Prices :
       /\ NextProductId(products) = "p1"
       /\ AddProduct("u1", "u1", price, MaxQty, Undefined)
  \/ \E upd \in PriceRequests :
       UpdateProduct("p1", upd.price, upd.stock, upd.isActive, "u1")
  \/ DeleteProduct("p1", "u1")
  \/ \E address \in Addresses, emailOk \in BOOLEAN, emptyHasKeys \in BOOLEAN :
       CreateOrder("u1", <<[productId |-> "p1", quantity |-> 1]>>,
                   address, "omitted", emailOk, emptyHasKeys)
  \/ \E lines \in PaidLines, gatewayOk \in BOOLEAN, emptyHasKeys \in BOOLEAN :
       PaymentCreateOrder("u1", lines, gatewayOk, emptyHasKeys)
  \/ \E razorpayOrderId \in RazorpayIds, verified \in BOOLEAN :
       VerifyPayment(razorpayOrderId, verified)
  \/ \E orderId \in OrderIds \cup {BadId}, status \in StatusRequests :
       UpdateOrderStatus(orderId, status)
  \/ \E orderId \in OrderIds, status \in StatusRequests, sellerId \in LineSellers :
       SellerUpdateOrderStatus(orderId, status, sellerId)
  \/ \E orderId \in OrderIds \cup {BadId} : DeleteOrder(orderId)
  \/ \E userId \in UserIds, orderId \in OrderIds : GetOrderDetails(userId, orderId)
  \/ \E sellerId \in LineSellers, strictQuery \in BOOLEAN :
       RemoveSeller(sellerId, strictQuery)

SpecOrders == Init /\ [][OrdersNext]_vars

\* a buyer who shops and pays while the seller and the admin work on the
\* catalogue and on the order
ShopAndPayNext ==
  \/ /\ NextProductId(products) = "p1"
     /\ AddProduct("u1", "u1", 1, MaxQty, Undefined)
  \/ \E upd \in PriceRequests :
       UpdateProduct("p1", upd.price, upd.stock, upd.isActive, "u1")
  \/ DeleteProduct("p1", "u1")
  \/ AddItemToCart("u1", "p1", 1, "u1")
  \/ RemoveItemFromCart("u1", "p1", "u1")
  \/ ClearCart("u1", "u1")
  \/ \E emptyHasKeys \in BOOLEAN :
       PaymentCreateOrder("u1", <<[productId |-> "p1", quantity |-> 1,
                                   price |-> 1, sellerId |-> "u1"]>>,
                          TRUE, emptyHasKeys)
  \/ \E razorpayOrderId \in RazorpayIds, verified \in BOOLEAN :
       VerifyPayment(razorpayOrderId, verified)
  \/ \E orderId \in OrderIds, status \in StatusRequests :
       UpdateOrderStatus(orderId, status)
  \/ \E orderId \in OrderIds, status \in StatusRequests :
       SellerUpdateOrderStatus(orderId, status, "u1")
  \/ \E orderId \in OrderIds : DeleteOrder(orderId)

SpecShopAndPay == Init /\ [][ShopAndPayNext]_vars

----------------------------------------------------------------------------
(* addItemToCart step by step.  The handler awaits the store four times:    *)
(* the reads of its transaction, the save, the commit, and the read of the  *)
(* cart it returns.  Other requests run between these steps.                *)

\* a request that has answered: what it was asked, its answer and what
\* became of its transaction
Answered(call, status, tx) ==
  [IdleCall EXCEPT !.pc = "done", !.op = call.op, !.userId = call.userId,
                   !.productId = call.productId, !.quantity = call.quantity,
                   !.status = status, !.tx = tx, !.fault = call.fault,
                   !.abortAfterCommit = call.abortAfterCommit]

\* the catch block of the cart service: session.abortTransaction(), then
\* `throw error.status ? error : new BadRequestError(...)`.  The driver
\* refuses to abort a transaction that has committed, and that error leaves
\* the handler instead
Caught(call, status) ==
  IF call.tx = "committed"
    THEN Answered([call EXCEPT !.abortAfterCommit = TRUE], 500, "committed")
    ELSE Answered(call, IF status = 0 THEN 400 ELSE status, "aborted")

\* the cart documents that requests in flight have built and not yet inserted
NewCartsInFlight ==
  Cardinality({c \in CallIds : calls[c].pc \in {"save", "commit"} /\ calls[c].cartIdx = 0})

\* lines 56-81: the transaction starts and reads the product and the user's
\* live cart; both reads see the store as it is when the first one runs
BeginAddItem(c, userId, productId, quantity) ==
  /\ calls[c].pc = "idle"
  /\ \A d \in CallIds : Earlier(d, c) => calls[d].pc # "idle"
  /\ Len(carts) + NewCartsInFlight < MaxCarts
  /\ LET call == [IdleCall EXCEPT !.op = "addItem", !.userId = userId,
                                  !.productId = productId, !.quantity = quantity,
                                  !.tx = "open"]
         idx == FindLiveCart(carts, userId)
     IN calls' = [calls EXCEPT ![c] =
          IF ~FindActiveProduct(products, productId) THEN Caught(call, 404)
          ELSE IF products[productId].stock < quantity THEN Caught(call, 400)
          ELSE [call EXCEPT !.pc = "save", !.cartIdx = idx,
                            !.cart = IF idx = 0 THEN NewCart(userId) ELSE carts[idx],
                            !.txnStock = products[productId].stock]]
  /\ UNCHANGED <<products, carts, orders, last, users, files>>

\* the store refuses the write of a transaction to a document that another
\* transaction has written since the first read, committed or not
WriteConflict(c) ==
  /\ calls[c].cartIdx # 0
  /\ \/ carts[calls[c].cartIdx] # calls[c].cart
     \/ \E d \in CallIds \ {c} :
          calls[d].pc = "commit" /\ calls[d].cartIdx = calls[c].cartIdx

\* line 83: cart.addItem reads the product again, outside the session, merges
\* the line and saves; the pre-save hook reads the products outside the
\* session too.  storageOk tells whether the store takes the write
SaveAddItem(c, storageOk) ==
  /\ calls[c].pc = "save"
  /\ LET call == calls[c]
         saved == addItem(products, call.cart, call.productId, call.quantity)
     IN calls' = [calls EXCEPT ![c] =
          IF ~saved.ok THEN Caught(call, 0)
          ELSE IF ~storageOk THEN Caught([call EXCEPT !.fault = TRUE], 0)
          ELSE IF WriteConflict(c) THEN Caught(call, 0)
          ELSE [call EXCEPT !.pc = "commit", !.cart = saved.cart,
                            !.usedStock = products[call.productId].stock]]
  /\ UNCHANGED <<products, carts, orders, last, users, files>>

\* line 84: session.commitTransaction() makes the write visible
CommitAddItem(c) ==
  /\ calls[c].pc = "commit"
  /\ carts' = SaveCart(carts, calls[c].cartIdx, calls[c].cart)
  /\ calls' = [calls EXCEPT ![c] =
       [@ EXCEPT !.pc = "return", !.tx = "committed",
                 !.cartIdx = IF @ = 0 THEN Len(carts) + 1 ELSE @]]
  /\ UNCHANGED <<products, orders, last, users, files>>

\* line 86: `return await Cart.findById(...)` inside the try block; readOk
\* tells whether the store answers the read
ReturnAddItem(c, readOk) ==
  /\ calls[c].pc = "return"
  /\ calls' = [calls EXCEPT ![c] =
       IF readOk THEN Answered(@, 200, "committed")
       ELSE Caught([@ EXCEPT !.fault = TRUE], 0)]
  /\ UNCHANGED <<products, carts, orders, last, users, files>>

\* requests of one buyer for the first product that overlap, while the
\* seller lists the product and changes its stock
OverlapNext ==
  \/ /\ NextProductId(products) = "p1"
     /\ AddProduct("u1", "u1", 1, MaxQty, Undefined)
  \/ \E upd \in StockRequests :
       UpdateProduct("p1", upd.price, upd.stock, upd.isActive, "u1")
  \/ \E c \in CallIds : BeginAddItem(c, "u1", "p1", 1)
  \/ \E c \in CallIds, storageOk \in BOOLEAN : SaveAddItem(c, storageOk)
  \/ \E c \in CallIds : CommitAddItem(c)
  \/ \E c \in CallIds, readOk \in BOOLEAN : ReturnAddItem(c, readOk)

SpecOverlap == Init /\ [][OverlapNext]_vars

----------------------------------------------------------------------------
(* verifyPayment step by step.  The controller awaits two writes of the     *)
(* store, paymentService.updatePaymentStatus and then a findOneAndUpdate of *)
(* the status, with no transaction around them.                             *)

\* the answer of the payment controller to a verification
VerifyAnswered(call, status) == [call EXCEPT !.pc = "done", !.status = status]

\* part_003 147-151 and 185: the signature comparison, then the first write,
\* updatePaymentStatus; writeOk tells whether the store takes the write.  A
\* failure reaches the catch block of the controller, which answers 500
BeginVerifyPayment(c, razorpayOrderId, verified, writeOk) ==
  /\ calls[c].pc = "idle"
  /\ \A d \in CallIds : Earlier(d, c) => calls[d].pc # "idle"
  /\ LET call == [IdleCall EXCEPT !.op = "verifyPayment",
                                  !.razorpayOrderId = razorpayOrderId,
                                  !.verified = verified]
     IN IF writeOk
          THEN /\ orders' = updatePaymentStatus(orders, razorpayOrderId,
                              IF verified THEN "completed" ELSE "failed")
               /\ calls' = [calls EXCEPT ![c] = [call EXCEPT !.pc = "status"]]
          ELSE /\ orders' = orders
               /\ calls' = [calls EXCEPT ![c] =
                    VerifyAnswered([call EXCEPT !.fault = TRUE], 500)]
  /\ UNCHANGED <<products, carts, last, users, files>>

\* part_003 152-159 and 186-195: the second write, findOneAndUpdate of the
\* status, and the answer
FinishVerifyPayment(c, writeOk) ==
  /\ calls[c].pc = "status"
  /\ LET call == calls[c]
         i == FindOrderByRazorpayId(orders, call.razorpayOrderId)
     IN IF ~writeOk
          THEN /\ orders' = orders
               /\ calls' = [calls EXCEPT ![c] =
                    VerifyAnswered([call EXCEPT !.fault = TRUE], 500)]
        ELSE IF i = 0
          THEN /\ orders' = orders
               /\ calls' = [calls EXCEPT ![c] = VerifyAnswered(call, 404)]
        ELSE /\ orders' = [orders EXCEPT ![i].status =
                             IF call.verified THEN "shipped" ELSE "failed"]
             /\ calls' = [calls EXCEPT ![c] =
                  VerifyAnswered(call, IF call.verified THEN 200 ELSE 400)]
  /\ UNCHANGED <<products, carts, last, users, files>>

\* orders posted to the payment controller and verifications of their
\* payments that overlap, while the buyer reads the order
PaymentStepsNext ==
  \/ \E lines \in PaidLines, gatewayOk \in BOOLEAN, emptyHasKeys \in BOOLEAN :
       PaymentCreateOrder("u1", lines, gatewayOk, emptyHasKeys)
  \/ \E c \in CallIds, razorpayOrderId \in RazorpayIds,
        verified \in BOOLEAN, writeOk \in BOOLEAN :
       BeginVerifyPayment(c, razorpayOrderId, verified, writeOk)
  \/ \E c \in CallIds, writeOk \in BOOLEAN : FinishVerifyPayment(c, writeOk)
  \/ \E orderId \in OrderIds : GetOrderDetails("u1", orderId)

SpecPaymentSteps == Init /\ [][PaymentStepsNext]_vars

----------------------------------------------------------------------------
(* Uploaded files.  The upload middleware of a route stores the files of    *)
(* the request at the image host before the controller runs.  A file is     *)
(* then "uploaded"; it becomes "attached" when a stored record names it and *)
(* "released" when cleanupFailedUpload is called with its public id.        *)

\* the number of images a product takes
MaxImages == 4

\* handleFileUpload: the files of the request are stored at the image host
Uploaded(fm, fs) == [f \in FileIds |-> IF f \in fs THEN "uploaded" ELSE fm[f]]

\* cleanupFailedUpload for each of the files
cleanupFailedUpload(fm, fs) == [f \in FileIds |-> IF f \in fs THEN "released" ELSE fm[f]]

\* the saved record names the files
Attached(fm, fs) == [f \in FileIds |-> IF f \in fs THEN "attached" ELSE fm[f]]

UploadOutcome(ps, fm, res) == [products |-> ps, files |-> fm, last |-> res]

\* the controller addProductWithImage and ProductService.addProduct with the
\* files of the request.  bodyOk tells whether the body passes the schema of
\* the controller, saveOk whether the store takes the new document
addProductWithImage(ps, fm, userId, sellerId, price, stock, fs, bodyOk, saveOk) ==
  LET op == "addProduct"
      up == Uploaded(fm, fs)
      out == addProduct(ps, userId, sellerId, price, stock, Undefined)
      fail(left, err, tx) == UploadOutcome(ps, left, Thrown(op, userId, err, tx))
  IN
  IF ~bodyOk
    THEN fail(up, BadRequestError("validation"), "none")
  ELSE IF price <= 0 \/ stock <= 0
    THEN UploadOutcome(ps, up, out.last)
  ELSE IF Cardinality(fs) > MaxImages
    THEN fail(cleanupFailedUpload(up, fs), BadRequestError("Maximum 4 images allowed"), "none")
  ELSE IF out.last.status # 200
    THEN UploadOutcome(ps, up, out.last)
  ELSE IF ~saveOk
    THEN fail(cleanupFailedUpload(up, fs), BadRequestError("Failed to create product"), "aborted")
  ELSE UploadOutcome(out.products, Attached(up, fs), out.last)

\* the controller updateProduct and ProductService.updateProduct with the
\* files of the request, which replace the images of the product
updateProductImages(ps, fm, id, price, userId, fs, saveOk) ==
  LET op == "updateProduct"
      up == Uploaded(fm, fs)
      out == updateProduct(ps, id, <<price>>, Undefined, Undefined, userId)
      fail(left, err, tx) == UploadOutcome(ps, left, Thrown(op, userId, err, tx))
  IN
  IF ~isValidObjectId(id)
    THEN fail(up, BadRequestError("Invalid product ID"), "none")
  ELSE IF price < 0
    THEN fail(up, BadRequestError("Price must be a non-negative number"), "none")
  ELSE IF out.last.status # 200
    THEN UploadOutcome(ps, cleanupFailedUpload(up, fs), out.last)
  ELSE IF Cardinality(fs) > MaxImages
    THEN fail(cleanupFailedUpload(up, fs), BadRequestError("Maximum 4 images allowed"), "aborted")
  ELSE IF ~saveOk
    THEN fail(cleanupFailedUpload(up, fs), BadRequestError("Failed to update product"), "aborted")
  ELSE UploadOutcome(out.products, Attached(up, fs), out.last)

\* UserService.updateUserProfilePicture with the file of the request.  The
\* service releases file.public_id: hasPublicId tells whether the upload
\* middleware has set that property, writeOk whether the store takes the write
updateUserProfilePicture(ps, fm, us, userId, fs, hasPublicId, writeOk) ==
  LET op == "updateUserProfilePicture"
      up == Uploaded(fm, fs)
      cleaned == IF hasPublicId THEN cleanupFailedUpload(up, fs) ELSE up
      fail(left, err, tx) == UploadOutcome(ps, left, Thrown(op, userId, err, tx))
  IN
  IF ~isValidObjectId(userId)
    THEN fail(up, BadRequestError("Invalid user ID"), "none")
  ELSE IF fs = {}
    THEN fail(up, BadRequestError("No file uploaded"), "none")
  ELSE IF ~writeOk
    THEN fail(cleaned, InternalError("write failed"), "aborted")
  ELSE IF userId \notin us
    THEN fail(cleaned, NotFoundError("User not found"), "aborted")
  ELSE UploadOutcome(ps, Attached(up, fs), Result(op, userId, 200, "", "committed", <<>>, 0))

\* a request uploads files the image host has not seen
Fresh(fs) == \A f \in fs : files[f] = "absent"

AddProductWithImage(userId, sellerId, price, stock, fs, bodyOk, saveOk) ==
  /\ NextProductId(products) # NoId
  /\ Fresh(fs)
  /\ LET out == addProductWithImage(products, files, userId, sellerId, price,
                                    stock, fs, bodyOk, saveOk)
     IN products' = out.products /\ files' = out.files /\ last' = out.last
  /\ UNCHANGED <<carts, orders, users, calls>>

UpdateProductImages(id, price, userId, fs, saveOk) ==
  /\ Fresh(fs)
  /\ LET out == updateProductImages(products, files, id, price, userId, fs, saveOk)
     IN products' = out.products /\ files' = out.files /\ last' = out.last
  /\ UNCHANGED <<carts, orders, users, calls>>

UpdateUserProfilePicture(userId, fs, hasPublicId, writeOk) ==
  /\ Fresh(fs)
  /\ LET out == updateUserProfilePicture(products, files, users, userId, fs,
                                         hasPublicId, writeOk)
     IN products' = out.products /\ files' = out.files /\ last' = out.last
  /\ UNCHANGED <<carts, orders, users, calls>>

\* the sets of files one request carries
FileSets == SUBSET FileIds

\* sellers and buyers who send files with their requests, while the admin
\* removes an account
UploadsNext ==
  \/ \E userId \in UserIds, price \in 0..1, stock \in Stocks, fs \in FileSets,
        bodyOk \in BOOLEAN, saveOk \in BOOLEAN :
       AddProductWithImage(userId, "u1", price, stock, fs, bodyOk, saveOk)
  \/ \E id \in {"p1", BadId}, price \in Prices, userId \in UserIds,
        fs \in FileSets, saveOk \in BOOLEAN :
       UpdateProductImages(id, price, userId, fs, saveOk)
  \/ \E userId \in {"u2"} \cup NumericIds, f \in FileIds,
        hasPublicId \in BOOLEAN, writeOk \in BOOLEAN :
       UpdateUserProfilePicture(userId, {f}, hasPublicId, writeOk)
  \/ \E sellerId \in NumericIds, strictQuery \in BOOLEAN :
       RemoveSeller(sellerId, strictQuery)

SpecUploads == Init /\ [][UploadsNext]_vars

----------------------------------------------------------------------------
(* Vocabulary of the properties, stated on the stored documents directly *)

\* the stored carts of a user that are not marked deleted
LiveIdx(cs, userId) ==
  {i \in 1..Len(cs) : cs[i].userId = userId /\ ~cs[i].isDeleted}

\* the lines a user's live cart holds
LiveItems(cs, userId) ==
  IF LiveIdx(cs, userId) = {} THEN <<>>
  ELSE cs[CHOOSE i \in LiveIdx(cs, userId) : TRUE].items

\* the lines a user's live cart holds for a product
LinesOf(cs, userId, productId) ==
  {LiveItems(cs, userId)[j] :
     j \in {k \in 1..Len(LiveItems(cs, userId)) :
              LiveItems(cs, userId)[k].productId = productId}}

\* the product can be bought: stored, active and not soft-deleted
Available(ps, productId) ==
  ps[productId].exists /\ ps[productId].isActive /\ ~ps[productId].isDeleted

\* a well-formed call made by the owner of the cart
OwnerCall(c) == c[1] \in UserIds /\ c[1] = c[2]

RECURSIVE SumOf(_, _)
SumOf(items, n) ==
  IF n = 0 THEN 0 ELSE items[n].totalPrice + SumOf(items, n - 1)

CartOpNames == {"addItem", "removeItem", "updateQuantity", "clear"}

----------------------------------------------------------------------------
(* C1: no stored cart ever holds two lines for the same product, and an     *)
(* addItem for a product that already has a line leaves the number of       *)
(* lines unchanged and makes that line's quantity the old quantity plus the *)
(* added quantity.                                                          *)

NoDuplicateLines(cs) ==
  \A i \in 1..Len(cs) : \A j, k \in 1..Len(cs[i].items) :
    cs[i].items[j].productId = cs[i].items[k].productId => j = k

AddMerges ==
  (last'.op = "addItem" /\ last'.status = 200) =>
    \A c \in CartCallers, p \in ProductIds, q \in Quantities :
      (AddItemToCart(c[1], p, q, c[2]) /\ LinesOf(carts, c[1], p) # {}) =>
        /\ Len(LiveItems(carts', c[1])) = Len(LiveItems(carts, c[1]))
        /\ LinesOf(carts', c[1], p) # {}
        /\ \A old \in LinesOf(carts, c[1], p), new \in LinesOf(carts', c[1], p) :
             new.quantity = old.quantity + q

C1_MergeNoDuplicates == [][NoDuplicateLines(carts') /\ AddMerges]_vars

\* a successful addItem has added to an existing line: the cart it stored
\* and returned holds one line for the product, with more units than the
\* call added
C1_Witness ==
  /\ last.op = "addItem" /\ last.status = 200
  /\ last.items = LiveItems(carts, last.userId)
  /\ \E line \in LinesOf(carts, last.userId, last.productId) :
       line.quantity > last.quantity

----------------------------------------------------------------------------
(* C2: in every stored cart each line's totalPrice is its price times its   *)
(* quantity and totalAmount is the sum of the lines' totalPrice (0 for a    *)
(* cart without lines).                                                     *)

C2_TotalsConsistent ==
  \A i \in 1..Len(carts) :
    /\ \A j \in 1..Len(carts[i].items) :
         carts[i].items[j].totalPrice =
           carts[i].items[j].price * carts[i].items[j].quantity
    /\ carts[i].totalAmount = SumOf(carts[i].items, Len(carts[i].items))

\* a successful mutation has stored a two-line cart whose lines carry
\* different prices
C2_Witness ==
  /\ last.op \in CartOpNames /\ last.status = 200
  /\ Len(LiveItems(carts, last.userId)) = 2
  /\ LiveItems(carts, last.userId)[1].price # LiveItems(carts, last.userId)[2].price
  /\ LiveItems(carts, last.userId)[1].quantity = 2

----------------------------------------------------------------------------
(* C3: an addItem by the owner for an available product fails with          *)
(* InsufficientStock when the requested quantity exceeds the stock, and     *)
(* also when the line's quantity plus the requested quantity exceeds it.    *)

InsufficientStock(res) == res.status = 400 /\ res.message = MsgInsufficientStock

C3_StockExceeded(userId, productId, quantity) ==
  \/ quantity > products[productId].stock
  \/ \E line \in LinesOf(carts, userId, productId) :
       line.quantity + quantity > products[productId].stock

C3_AddFailsInsufficientStock ==
  [][(last'.op = "addItem") =>
       \A c \in CartCallers, p \in ProductIds, q \in Quantities :
         (/\ OwnerCall(c) /\ q > 0 /\ Available(products, p)
          /\ C3_StockExceeded(c[1], p, q)
          /\ AddItemToCart(c[1], p, q, c[2])) => InsufficientStock(last')]_vars

----------------------------------------------------------------------------
(* C4: an addItem or updateQuantity that fails its stock check (the         *)
(* requested or, for addItem, the cumulative quantity exceeds the stock)    *)
(* returns an error and leaves every stored cart as it was.                 *)

C4_Kept == last'.status = 400 /\ carts' = carts

\* C4, as checked: a step that does not both return status 400 and keep the
\* carts is not an addItem or updateQuantity whose stock check fails
C4_FailedStockCheckKeepsCart ==
  [][(last'.op \in {"addItem", "updateQuantity"} /\ ~C4_Kept) =>
       ~\E c \in CartCallers, p \in ProductIds, q \in Quantities :
          /\ OwnerCall(c) /\ q > 0 /\ Available(products, p)
          /\ \/ /\ last'.op = "addItem"
                /\ C3_StockExceeded(c[1], p, q)
                /\ AddItemToCart(c[1], p, q, c[2])
             \/ /\ last'.op = "updateQuantity"
                /\ q > products[p].stock
                /\ UpdateCartItemQuantity(c[1], p, q, c[2])]_vars

\* an addItem has failed in the save of a cart whose lines are all available
\* and in stock, one of them with no unit of stock left to add: the sum of
\* the line and the request exceeded the stock
C4_Witness ==
  /\ last.op = "addItem" /\ last.status = 400
  /\ last.message = "Failed to add item to cart"
  /\ LiveItems(carts, last.userId) # <<>>
  /\ \A j \in 1..Len(LiveItems(carts, last.userId)) :
       LET line == LiveItems(carts, last.userId)[j]
       IN /\ Available(products, line.productId)
          /\ line.quantity <= products[line.productId].stock
  /\ \E j \in 1..Len(LiveItems(carts, last.userId)) :
       LET line == LiveItems(carts, last.userId)[j]
       IN line.quantity + 1 > products[line.productId].stock

----------------------------------------------------------------------------
(* C5: in every reachable state an addItem or updateQuantity by the owner,  *)
(* with a positive quantity, for a product that is not stored, is           *)
(* soft-deleted or is inactive fails with NotFound and leaves the carts as  *)
(* they are; a successful deleteProduct marks the product deleted and no    *)
(* operation ever unmarks it, so every later such call naming it fails with *)
(* NotFound.                                                                *)

C5_NotFound(out) == out.last.status = 404 /\ out.carts = carts

\* what the two handlers answer in the current state for every unavailable
\* product
C5_UnavailableIsNotFound ==
  \A userId \in CartOwnerIds, p \in ProductIds, q \in 1..MaxQty :
    ~Available(products, p) =>
      /\ C5_NotFound(addItemToCart(products, carts, userId, p, q, userId))
      /\ C5_NotFound(updateCartItemQuantity(products, carts, userId, p, q, userId))

C5_DeletedStaysDeleted ==
  /\ \A p \in ProductIds : products[p].isDeleted => products'[p].isDeleted
  /\ (last'.op = "deleteProduct" /\ last'.status = 200) =>
       \A id \in ProductIds, userId \in UserIds :
         DeleteProduct(id, userId) => products'[id].isDeleted

----------------------------------------------------------------------------
(* C6: a removeItem by the owner fails with NotFound exactly when the live  *)
(* cart has no line for the product; otherwise it succeeds, removes that    *)
(* line only and recomputes totalAmount, whatever the state of the products *)
(* on the other lines.                                                      *)

C6_RemoveSucceedsWhenLinePresent ==
  [][(last'.op = "removeItem") =>
       \A c \in CartCallers, p \in ProductIds :
         (OwnerCall(c) /\ RemoveItemFromCart(c[1], p, c[2])) =>
           IF LinesOf(carts, c[1], p) = {}
             THEN last'.status = 404 /\ carts' = carts
             ELSE /\ last'.status = 200
                  /\ Len(LiveItems(carts', c[1])) = Len(LiveItems(carts, c[1])) - 1
                  /\ LinesOf(carts', c[1], p) = {}]_vars

----------------------------------------------------------------------------
(* C7: a clear by the owner of a live cart keeps the cart document stored,  *)
(* marked deleted, without lines and with totalAmount 0, and changes no     *)
(* other document; the view that follows returns no lines and total 0; the  *)
(* addItem that follows and succeeds leaves the user one live cart holding  *)
(* only the added line.                                                     *)

C7_ClearKeepsRecord ==
  (last'.op = "clear") =>
    \A c \in CartCallers :
      (OwnerCall(c) /\ LiveIdx(carts, c[1]) # {} /\ ClearCart(c[1], c[2])) =>
        /\ last'.status = 200
        /\ Len(carts') = Len(carts)
        /\ \A i \in 1..Len(carts) :
             IF i \in LiveIdx(carts, c[1])
               THEN carts'[i] = [userId |-> c[1], items |-> <<>>,
                                 totalAmount |-> 0, isDeleted |-> TRUE]
               ELSE carts'[i] = carts[i]

C7_AfterClear ==
  (last.op = "clear" /\ last.status = 200) =>
    /\ (last'.op = "view" /\ last'.userId = last.userId /\ last'.status = 200)
         => (last'.items = <<>> /\ last'.totalAmount = 0)
    /\ (last'.op = "addItem" /\ last'.status = 200) =>
         \A c \in CartCallers, p \in ProductIds, q \in Quantities :
           (c[1] = last.userId /\ AddItemToCart(c[1], p, q, c[2])) =>
             /\ Cardinality(LiveIdx(carts', c[1])) = 1
             /\ Len(LiveItems(carts', c[1])) = 1
             /\ LiveItems(carts', c[1])[1].productId = p
             /\ LiveItems(carts', c[1])[1].quantity = q

C7_ClearSoftDeletes == [][C7_ClearKeepsRecord /\ C7_AfterClear]_vars

\* an addItem has succeeded after a clear: a deleted, empty cart document is
\* stored in front of the user's live cart
C7_Witness ==
  /\ last.op = "addItem" /\ last.status = 200
  /\ Len(carts) = 2
  /\ carts[1] = [userId |-> last.userId, items |-> <<>>,
                 totalAmount |-> 0, isDeleted |-> TRUE]
  /\ ~carts[2].isDeleted /\ Len(carts[2].items) = 1

----------------------------------------------------------------------------
(* C8: after a successful order creation by a user, every cart of that user *)
(* is marked deleted and holds no line.                                     *)

C8_CheckoutClearsCart ==
  (last.op \in {"createOrder", "paymentCreateOrder"} /\ last.status \in {200, 201}) =>
    \A i \in 1..Len(carts) :
      carts[i].userId = last.userId => (carts[i].isDeleted /\ carts[i].items = <<>>)

----------------------------------------------------------------------------
(* C9: a view by the owner returns exactly the stored lines of the live     *)
(* cart whose product is active, not soft-deleted and has stock at least    *)
(* the line's quantity, in stored order, with totalAmount the sum of their  *)
(* totalPrice; it changes no stored cart and creates none.                  *)

C9_Visible(ps, item) ==
  /\ Available(ps, item.productId)
  /\ ps[item.productId].stock >= item.quantity

C9_ViewFilters ==
  [][(last'.op = "view") =>
       \A c \in CartCallers :
         (OwnerCall(c) /\ GetUserCart(c[1], c[2])) =>
           LET shown == SelectSeq(LiveItems(carts, c[1]),
                                  LAMBDA item : C9_Visible(products, item))
           IN /\ last'.status = 200
              /\ last'.items = shown
              /\ last'.totalAmount = SumOf(shown, Len(shown))
              /\ carts' = carts]_vars

\* a view has returned one line of a stored two-line cart
C9_Witness ==
  /\ last.op = "view" /\ last.status = 200
  /\ Len(last.items) = 1
  /\ Len(LiveItems(carts, last.userId)) = 2
  /\ last.totalAmount < carts[CHOOSE i \in LiveIdx(carts, last.userId) : TRUE].totalAmount

----------------------------------------------------------------------------
(* C10: in every reachable state a cart operation with well-formed ids and *)
(* a positive quantity that is invoked by a principal other than the cart   *)
(* owner fails with Forbidden before a transaction is started and changes   *)
(* no stored cart.                                                          *)

C10_Rejected(out) ==
  out.last.status = 403 /\ out.last.tx = "none" /\ out.carts = carts

\* C10: what the five handlers answer in the current state to every call
\* whose acting principal differs from the user it names
C10_ForeignPrincipalForbidden ==
  \A userId \in UserIds : \A authUserId \in UserIds \ {userId} :
    /\ C10_Rejected(clearCart(products, carts, userId, authUserId))
    /\ C10_Rejected(getUserCart(products, carts, userId, authUserId))
    /\ \A p \in ProductIds :
         /\ C10_Rejected(removeItemFromCart(products, carts, userId, p, authUserId))
         /\ \A q \in 1..MaxQty :
              /\ C10_Rejected(addItemToCart(products, carts, userId, p, q, authUserId))
              /\ C10_Rejected(updateCartItemQuantity(products, carts, userId, p, q,
                                                     authUserId))

\* a cart call has been refused with Forbidden while the owner's live cart
\* holds lines
C10_Witness ==
  /\ last.op \in CartOpNames \cup {"view"}
  /\ last.status = 403 /\ last.tx = "none"
  /\ LiveItems(carts, last.userId) # <<>>

----------------------------------------------------------------------------
(* C11: createOrder of the order service, asked for one line that names an  *)
(* existing product with a positive quantity and with each address omitted  *)
(* or complete, succeeds and stores an order whose totalAmount is the       *)
(* catalogue price times the quantity, with payment status pending and      *)
(* fulfilment status pending.                                               *)

\* what the claim expects of the call that asks for quantity units of a product
C11_Stored(out, userId, productId, quantity) ==
  /\ out.last.status = 201
  /\ Len(out.orders) = Len(orders) + 1
  /\ LET order == out.orders[Len(out.orders)]
     IN /\ order.userId = userId
        /\ order.totalAmount = products[productId].price * quantity
        /\ order.paymentStatus = "pending"
        /\ order.status = "pending"

\* C11: in every reachable state, every such request succeeds; the email is
\* sent and the library reports no key for an address that was omitted
C11_ValidOrderIsStored ==
  \A userId \in CartOwnerIds, productId \in ProductIds, quantity \in 1..MaxQty,
     shippingAddress \in {"omitted", "complete"},
     billingAddress \in {"omitted", "complete"} :
    (products[productId].exists /\ ~products[productId].isDeleted) =>
      C11_Stored(createOrder(products, orders, users, userId,
                             <<[productId |-> productId, quantity |-> quantity]>>,
                             shippingAddress, billingAddress, TRUE, FALSE),
                 userId, productId, quantity)

----------------------------------------------------------------------------
(* C12: once an order is stored, no later operation changes its totalAmount *)
(* or the unit price of any of its lines, and getOrderDetails reports the   *)
(* stored lines and the stored total.                                       *)

\* every step leaves the total and the lines of every order that stays stored
C12_Frozen ==
  \A i \in 1..Len(orders) :
    (orders[i].exists /\ orders'[i].exists) =>
      /\ orders'[i].totalAmount = orders[i].totalAmount
      /\ orders'[i].products = orders[i].products

\* the stored total is the sum over the captured lines, and that is what a
\* fetch of the order answers, whatever the catalogue says now
C12_FetchReportsCaptured ==
  /\ \A i \in 1..Len(orders) :
       orders[i].exists => orders[i].totalAmount = SumLines(orders[i].products)
  /\ \A userId \in UserIds, orderId \in OrderIds :
       LET out == getOrderDetails(orders, userId, orderId)
           i == FindOrderById(orders, orderId)
       IN out.last.status = 200 =>
            /\ out.last.totalAmount = orders[i].totalAmount
            /\ out.last.items = orders[i].products

\* C12: the captured total and prices of an order never change, and a fetch
\* of the order reports them
C12_TotalNeverChanges == []C12_FetchReportsCaptured /\ [][C12_Frozen]_vars

\* an order whose payment was recorded and whose status the seller has
\* updated is fetched while the catalogue lists its product at another price
C12_Witness ==
  /\ last.op = "getOrderDetails" /\ last.status = 200
  /\ \E i \in 1..Len(orders) :
       /\ orders[i].exists
       /\ orders[i].paymentStatus = "completed"
       /\ orders[i].status = "cancelled"
       /\ LET line == orders[i].products[1]
          IN /\ products[line.productId].exists
             /\ products[line.productId].price # line.price
             /\ last.totalAmount = line.price * line.quantity

----------------------------------------------------------------------------
(* C13: no order that names a soft-deleted product is ever stored: whenever *)
(* a step stores a new order, no line of it names a product that is         *)
(* soft-deleted at that moment.                                             *)

C13_NewOrderNamesLiveProducts ==
  Len(orders') > Len(orders) =>
    LET order == orders'[Len(orders')]
    IN \A k \in 1..Len(order.products) :
         ~products[order.products[k].productId].isDeleted

\* C13: every order-creating step stores lines of products that are not
\* soft-deleted
C13_NoOrderOfDeletedProduct == [][C13_NewOrderNamesLiveProducts]_vars

----------------------------------------------------------------------------
(* C14: createOrder of the order service, asked for a live product, fails   *)
(* with BadRequest and stores nothing when an address has a sub-field but   *)
(* lacks street, city or country, and is accepted when each address is      *)
(* omitted or complete.                                                     *)

C14_Answer(out, shippingAddress, billingAddress) ==
  IF "partial" \in {shippingAddress, billingAddress}
    THEN out.last.status = 400 /\ out.orders = orders
    ELSE out.last.status = 201

\* C14: in every reachable state the address rule decides the answer to a
\* request for one unit of a live product
C14_AddressAllOrNothing ==
  \A productId \in ProductIds, shippingAddress \in Addresses,
     billingAddress \in Addresses :
    (products[productId].exists /\ ~products[productId].isDeleted) =>
      C14_Answer(createOrder(products, orders, users, "u1",
                             <<[productId |-> productId, quantity |-> 1]>>,
                             shippingAddress, billingAddress, TRUE, FALSE),
                 shippingAddress, billingAddress)

----------------------------------------------------------------------------
(* C15: createOrder of the order service commits and returns the order for  *)
(* every valid request, whether or not the confirmation email can be sent.  *)

\* C15: in every reachable state, a request for one unit of a live product
\* with no address is answered 201 and stores one more order, with the email
\* service working or failing
C15_EmailFailureKeepsOrder ==
  \A productId \in ProductIds, emailOk \in BOOLEAN :
    (products[productId].exists /\ ~products[productId].isDeleted) =>
      LET out == createOrder(products, orders, users, "u1",
                             <<[productId |-> productId, quantity |-> 1]>>,
                             "omitted", "omitted", emailOk, FALSE)
      IN out.last.status = 201 /\ Len(out.orders) = Len(orders) + 1

----------------------------------------------------------------------------
(* C16: a status update that asks for a status outside pending, shipped,    *)
(* delivered, cancelled fails with BadRequest and leaves the orders as they *)
(* are, on the admin path and on the seller path; a status update of an     *)
(* order that is not stored fails with NotFound on both paths.              *)

C16_Refused(out, status) == out.last.status = status /\ out.orders = orders

\* C16: what the two handlers answer in the current state
C16_StatusUpdateErrors ==
  \A orderId \in OrderIds, sellerId \in LineSellers :
    /\ \A status \in StatusRequests \ OrderStatuses :
         /\ C16_Refused(updateOrderStatus(orders, orderId, status), 400)
         /\ C16_Refused(sellerUpdateOrderStatus(products, orders, orderId,
                                                status, sellerId), 400)
    /\ \A status \in StatusRequests \cap OrderStatuses :
         FindOrderById(orders, orderId) = 0 =>
           /\ C16_Refused(updateOrderStatus(orders, orderId, status), 404)
           /\ C16_Refused(sellerUpdateOrderStatus(products, orders, orderId,
                                                  status, sellerId), 404)

----------------------------------------------------------------------------
(* C17: recording a payment result for a stored order sets payment status   *)
(* completed and fulfilment status shipped when the verification succeeds,  *)
(* and payment status failed and fulfilment status cancelled when it fails. *)

\* C17: what verifyPayment does in the current state to every stored order
C17_PaymentResultRecorded ==
  \A razorpayOrderId \in RazorpayIds, verified \in BOOLEAN :
    LET i == FindOrderByRazorpayId(orders, razorpayOrderId)
        out == verifyPayment(orders, razorpayOrderId, verified)
    IN i # 0 =>
         /\ out.orders[i].paymentStatus = IF verified THEN "completed" ELSE "failed"
         /\ out.orders[i].status = IF verified THEN "shipped" ELSE "cancelled"

----------------------------------------------------------------------------
(* C19: no step physically removes a stored order, or a stored product that *)
(* a stored order names.                                                    *)

\* the products the lines of the stored orders name
C19_Referenced(os) ==
  UNION {{os[i].products[k].productId : k \in 1..Len(os[i].products)} :
           i \in {j \in 1..Len(os) : os[j].exists}}

C19_RecordsKept ==
  /\ \A i \in 1..Len(orders) : orders[i].exists => orders'[i].exists
  /\ \A p \in C19_Referenced(orders) : products[p].exists => products'[p].exists

\* C19: every step keeps every stored order and every referenced product
C19_NothingPhysicallyRemoved == [][C19_RecordsKept]_vars

----------------------------------------------------------------------------
(* C20: whenever a step stores a new order, the unit price of each of its   *)
(* lines is the catalogue price of the product at that moment, and the      *)
(* total is the sum of these catalogue prices times the quantities.         *)

C20_NewOrderAtCataloguePrice ==
  Len(orders') > Len(orders) =>
    LET order == orders'[Len(orders')]
        listed(k) == products[order.products[k].productId].exists
    IN /\ \A k \in 1..Len(order.products) :
            listed(k) =>
              order.products[k].price = products[order.products[k].productId].price
       /\ order.totalAmount = SumLines(order.products)

\* C20: every order-creating step stores catalogue prices
C20_LinePriceIsCataloguePrice == [][C20_NewOrderAtCataloguePrice]_vars

----------------------------------------------------------------------------
(* C18: only the recording of a payment result changes the payment status   *)
(* of a stored order: status updates by the admin and by the seller, the    *)
(* deletion of an order, cart operations and product operations leave the   *)
(* payment status of every order as it is.                                  *)

C18_PaymentStatusChanged ==
  \E i \in 1..Len(orders) :
    /\ orders[i].exists /\ orders'[i].exists
    /\ orders'[i].paymentStatus # orders[i].paymentStatus

\* C18: a step of any operation but verifyPayment keeps every payment status
C18_OnlyPaymentResultSetsPaymentStatus ==
  [][last'.op # "verifyPayment" => ~C18_PaymentStatusChanged]_vars

\* after the payment of an order was recorded, its status was updated, it
\* was deleted, and the buyer went on shopping: the payment status stands
C18_Witness ==
  /\ last.op \in CartOpNames /\ last.status = 200
  /\ \E i \in 1..Len(orders) :
       /\ orders[i].exists
       /\ orders[i].paymentStatus = "completed"
       /\ orders[i].status = "cancelled"
       /\ orders[i].isDeleted
  /\ products["p1"].isDeleted

----------------------------------------------------------------------------
(* C22: in every reachable state every stored order has a payment status in *)
(* pending, completed, failed and a fulfilment status in pending, shipped,  *)
(* delivered, cancelled.                                                    *)

\* the enum of the paymentStatus path of orderSchema
PaymentStatuses == {"pending", "completed", "failed"}

\* C22: the two status fields of every stored order are within their enums
C22_StatusesWithinEnums ==
  \A i \in 1..Len(orders) :
    orders[i].exists =>
      /\ orders[i].paymentStatus \in PaymentStatuses
      /\ orders[i].status \in OrderStatuses

----------------------------------------------------------------------------
(* C29: once the payment status of an order is completed it stays           *)
(* completed, and no later call sets the fulfilment status of such an order *)
(* as a failed payment does.                                                *)

C29_CompletedKept ==
  \A i \in 1..Len(orders) :
    (orders[i].exists /\ orders'[i].exists
       /\ orders[i].paymentStatus = "completed") =>
      /\ orders'[i].paymentStatus = "completed"
      /\ last'.op = "verifyPayment" =>
           orders'[i].status \in {orders[i].status, "shipped"}

\* C29: every step keeps a completed payment completed
C29_CompletedStaysCompleted == [][C29_CompletedKept]_vars

----------------------------------------------------------------------------
(* C23: of the addItem requests of one user that overlap, none that reports *)
(* success is lost: the cart the store finds for the user holds, for every  *)
(* product, at least the quantities of all requests that answered 200.      *)

\* the units of a product that the requests answered with 200 have added
RECURSIVE C23_Added(_, _, _)
C23_Added(userId, productId, i) ==
  IF i > Len(CallSeq) THEN 0
  ELSE LET call == calls[CallSeq[i]]
       IN (IF /\ call.pc = "done" /\ call.op = "addItem" /\ call.status = 200
              /\ call.userId = userId /\ call.productId = productId
             THEN call.quantity ELSE 0)
          + C23_Added(userId, productId, i + 1)

\* the units of a product in the cart that Cart.findOne finds for the user
C23_Stored(userId, productId) ==
  LET idx == FindLiveCart(carts, userId)
      k == IF idx = 0 THEN 0 ELSE findIndex(carts[idx].items, productId)
  IN IF k = 0 THEN 0 ELSE carts[idx].items[k].quantity

\* C23: no addition that was reported as a success is missing from the cart
C23_NoLostUpdate ==
  \A userId \in CartOwnerIds, productId \in ProductIds :
    C23_Stored(userId, productId) >= C23_Added(userId, productId, 1)

----------------------------------------------------------------------------
(* C24: in every reachable state each user has at most one cart that is not *)
(* marked deleted, requests that overlap included.                          *)

\* C24: at most one live cart per user
C24_OneLiveCartPerUser ==
  \A userId \in UserIds : Cardinality(LiveIdx(carts, userId)) <= 1

----------------------------------------------------------------------------
(* C25: the stock value with which addItem accepts a write is the one read  *)
(* inside the transaction that writes the cart, and the line it commits     *)
(* does not exceed that value, also when the seller changes the stock while *)
(* the request runs.                                                        *)

\* the line of the product in the cart a request is about to commit
C25_Line(call) == call.cart.items[findIndex(call.cart.items, call.productId)]

\* C25: every request whose save was accepted checked the stock its own
\* transaction had read
C25_StockReadInTransaction ==
  \A c \in CallIds :
    calls[c].pc = "commit" =>
      /\ calls[c].usedStock = calls[c].txnStock
      /\ C25_Line(calls[c]).quantity <= calls[c].txnStock

----------------------------------------------------------------------------
(* C27: a cart request that ends on a failure of the store, during the save *)
(* or after it, has its transaction aborted and is answered as Internal,    *)
(* never as BadRequest; a request that ends on a validation error is        *)
(* aborted and keeps the status of its error.                               *)

\* C27: the answer of every request that met a failure of the store is 500
C27_StorageFailureIsInternal ==
  \A c \in CallIds :
    (calls[c].pc = "done" /\ calls[c].fault) => calls[c].status = 500

----------------------------------------------------------------------------
(* C30: every cart request that started a transaction ends it once:         *)
(* committed when it answers with a result, aborted when it answers with an *)
(* error, and it never asks to abort a transaction that has committed.      *)

\* C30: how the transaction of every answered request ended
C30_TransactionEndsOnce ==
  \A c \in CallIds :
    calls[c].pc = "done" =>
      /\ calls[c].tx = (IF calls[c].status = 200 THEN "committed" ELSE "aborted")
      /\ ~calls[c].abortAfterCommit

----------------------------------------------------------------------------
(* C26: recording a payment result changes the payment status and the       *)
(* status of the order together: no state holds an order whose payment      *)
(* status a verification has set while its status is not the one that       *)
(* verification sets, a failure of the second write included.               *)

\* C26: the status that belongs to a recorded payment result
C26_StatusOf(paymentStatus) == IF paymentStatus = "completed" THEN "shipped" ELSE "failed"

\* C26: in every state, every stored order with a recorded payment result
\* has the status of that result
C26_PaymentAndStatusTogether ==
  \A i \in 1..Len(orders) :
    (orders[i].exists /\ orders[i].paymentStatus \in {"completed", "failed"})
      => orders[i].status = C26_StatusOf(orders[i].paymentStatus)

----------------------------------------------------------------------------
(* C28: whenever addProduct, updateProduct or the profile-picture update    *)
(* fails after files were uploaded, a cleanup is requested for every        *)
(* uploaded file: no failed operation leaves an uploaded file that is       *)
(* neither named by a stored record nor released.                           *)

\* C28: the operations that take uploaded files
C28_UploadOps == {"addProduct", "updateProduct", "updateUserProfilePicture"}

\* C28: after every operation that takes files, each file at the image host
\* is attached to a record or released
C28_NoOrphanedUpload ==
  last.op \in C28_UploadOps => \A f \in FileIds : files[f] # "uploaded"

====
